---- MODULE Spec2Model ----
(***************************************************************************)
(* INA234 driver (ina234.c / ina234.h): the Device struct, its 2-byte      *)
(* register image, the transaction layer, the configuration / alert       *)
(* operations and the getters, together with the chip's register file     *)
(* seen over the bus.                                                      *)
(*                                                                         *)
(* Numbers.  A C float is a dyadic rational, kept as [m, e] = m / 2^e.     *)
(* The LSB macros are kept as their reciprocals (0.025 = 1/40, ...), so    *)
(* that "x / LSB" is the exact integer expression (K * m) / 2^e.  Words    *)
(* are 16-bit naturals, bytes 8-bit naturals; the register image is the    *)
(* pair raw_data[0], raw_data[1] of a little-endian target whose bitfields *)
(* are allocated from bit 0 upwards.                                       *)
(***************************************************************************)
EXTENDS Integers, Sequences, FiniteSets, TLC

VARIABLES
    dev,    \* the fields of struct ina234 other than the register image
    raw,    \* self->reg.raw_data: <<raw_data[0], raw_data[1]>>
    chip,   \* the chip's registers: register address -> 16-bit word
    bus,    \* the bus transactions issued by the most recent call, in order
    call,   \* the most recent call: its name, arguments and result
    nops    \* number of calls made so far

vars == <<dev, raw, chip, bus, call, nops>>

--------------------------------------------------------------------------
(* Bounds of the model *)

MaxOps == 2
MaxShuntEighths == 40
MaxTxn == 3
MaxFlagReads == 2

--------------------------------------------------------------------------
(* ina234.h: register addresses and enumerations *)

CONFIGURATION_REGISTER == 0
SHUNT_VOLTAGE_REGISTER == 1
BUS_VOLTAGE_REGISTER == 2
POWER_REGISTER == 3
CURRENT_REGISTER == 4
CALIBRATION_REGISTER == 5
MASK_ENABLE_REGISTER == 6
ALERT_LIMIT_REGISTER == 7
MANUFACTURERID_REGISTER == 62
DEVICEID_REGISTER == 63

RANGE_81_92mV == 0
RANGE_20_48mV == 1

STATUS_OK == 0
STATUS_TimeOut == 1

ALERT_NONE == 0
ALERT_SHUNT_OVER_LIMIT == 1
ALERT_SHUNT_UNDER_LIMIT == 2
ALERT_BUS_OVER_LIMIT == 3
ALERT_BUS_UNDER_LIMIT == 4
ALERT_POWER_OVER_LIMIT == 5

ALERT_DATA_READY == 0
ALERT_LIMIT_REACHED == 1

ERROR_NONE == 0
ERROR_MEMORY == 1
ERROR_OVF == 2
ERROR_BOTH_MEMORY_OVF == 3

ADCRange == {RANGE_81_92mV, RANGE_20_48mV}
NumSamples == 0..7
ConvTime == 0..7
Mode == 0..7
AlertOn == ALERT_NONE..ALERT_POWER_OVER_LIMIT
AlertPolarity == {0, 1}
AlertLatch == {0, 1}
AlertConvReady == {0, 1}

(* Reciprocals of the LSB macros: 1 / 0.025, 1 / 0.04, 1 / 0.01 and        *)
(* 1 / (5.0 / 2048.0 * 0.032).  CURRENT_LSB itself is 5 / 2048.            *)
BUS_VOLTAGE_LSB_INV == 40
SHUNT_VOLTAGE_81_92mv_LSB_INV == 25
SHUNT_VOLTAGE_20_48mv_LSB_INV == 100
POWER_LSB_INV == 12800
CURRENT_LSB_NUM == 5
CURRENT_LSB_DEN == 2048

--------------------------------------------------------------------------
(* Bits, bytes and words *)

Pow2(n) == 2 ^ n

Bit(w, i) == (w \div Pow2(i)) % 2

RECURSIVE XorBits(_, _, _)
XorBits(a, b, n) ==
    IF n = 0 THEN 0
    ELSE ((a + b) % 2) + 2 * XorBits(a \div 2, b \div 2, n - 1)

\* the C operator ^ on two uint8_t
Xor8(a, b) == XorBits(a, b, 8)

\* value of a 16-bit overlay member over raw_data on the little-endian target
Word(r) == r[1] + 256 * r[2]

\* reading a bitfield member that starts at bit lo and is width bits wide
GetField(w, lo, width) == (w \div Pow2(lo)) % Pow2(width)

\* variant: the member is written without keeping the rest of the storage unit
SetField_DropOthers(w, lo, width, v) == (v % Pow2(width)) * Pow2(lo)

\* assigning v to that bitfield member: v is truncated to the member's width
\* and every other bit of the storage unit is kept
SetField(w, lo, width, v) ==
    w - GetField(w, lo, width) * Pow2(lo) + (v % Pow2(width)) * Pow2(lo)

\* the image after storing the 16-bit value w through an overlay member
Store(w) == <<w % 256, w \div 256>>

--------------------------------------------------------------------------
(* C numbers *)

\* a float: the dyadic rational m / 2^e
Float(m, e) == [m |-> m, e |-> e]

RECURSIVE Normal(_)
\* the same value with an odd (or zero) numerator
Normal(x) ==
    IF x.e > 0 /\ x.m % 2 = 0 THEN Normal(Float(x.m \div 2, x.e - 1)) ELSE x

\* n / d rounded to the nearest integer (no constant used lies on a tie)
RoundDiv(n, d) == (n + d \div 2) \div d

RECURSIVE FracBits(_, _, _)
\* the number of fraction bits at which num / den has a 24-bit significand
FracBits(num, den, e) ==
    IF num > 0 /\ e < 30 /\ num * Pow2(e + 1) < den * Pow2(24)
    THEN FracBits(num, den, e + 1) ELSE e

\* conversion of the decimal constant sign * num / den of a call site to the
\* float parameter: the nearest value with a 24-bit significand
ToFloat(sign, num, den) ==
    LET e == FracBits(num, den, 0)
    IN  Normal(Float(sign * RoundDiv(num * Pow2(e), den), e))

\* (int32_t)(x / LSB) for a float x and LSB = 1 / K: the quotient truncated
\* towards zero
DivLsb(x, K) ==
    IF x.m >= 0 THEN (K * x.m) \div Pow2(x.e)
    ELSE 0 - ((K * (0 - x.m)) \div Pow2(x.e))

RECURSIVE TwoExp(_)
\* the exponent of the largest power of two that divides n > 0
TwoExp(n) == IF n % 2 = 0 THEN 1 + TwoExp(n \div 2) ELSE 0

\* (float)(v * LSB) for an integer v and LSB = 1 / K: the double product
\* converted to float, which is the float nearest to v / K.  K is split into
\* its odd part and a power of two; dividing by the latter only moves the
\* exponent.
TimesLsb(v, K) ==
    LET k == TwoExp(K)
        x == ToFloat(IF v < 0 THEN -1 ELSE 1, IF v < 0 THEN 0 - v ELSE v,
                     K \div Pow2(k))
    IN  Normal(Float(x.m, x.e + k))

\* (float)(v * CURRENT_LSB): 5 / 2048 is a double and the product is exact
TimesCurrentLsb(v) == Normal(Float(CURRENT_LSB_NUM * v, TwoExp(CURRENT_LSB_DEN)))

\* variant: the bitfield is read as unsigned
SignedField_Unsigned(f, width) == f

\* the value of a signed bitfield of the given width that holds the bits f
SignedField(f, width) == IF f >= Pow2(width - 1) THEN f - Pow2(width) ELSE f

\* variant: the full scale does not follow adc_range
ShuntCalQuotient_OneRange(adc_range, ShuntResistor) ==
    (8192 * CURRENT_LSB_DEN * Pow2(ShuntResistor.e))
        \div (100 * CURRENT_LSB_NUM * ShuntResistor.m)

\* variant: the quotient is rounded to the nearest integer
ShuntCalQuotient_Rounded(adc_range, ShuntResistor) ==
    LET fullScale100 == IF adc_range = RANGE_81_92mV THEN 8192 ELSE 2048
    IN  RoundDiv(fullScale100 * CURRENT_LSB_DEN * Pow2(ShuntResistor.e),
                 100 * CURRENT_LSB_NUM * ShuntResistor.m)

\* the double (fullScale / (CURRENT_LSB * ShuntResistor)), rounded down, for a
\* positive ShuntResistor; fullScale is 81.92 or 20.48
ShuntCalQuotient(adc_range, ShuntResistor) ==
    LET fullScale100 == IF adc_range = RANGE_81_92mV THEN 8192 ELSE 2048
    IN  (fullScale100 * CURRENT_LSB_DEN * Pow2(ShuntResistor.e))
            \div (100 * CURRENT_LSB_NUM * ShuntResistor.m)

\* (uint16_t) of a non-negative double with integer part q.  Above 65535 the
\* conversion is undefined: builds either convert through a wider integer and
\* keep the low 16 bits, or saturate.
CastU16(q) == IF q < 65536 THEN {q} ELSE {q % 65536, 65535}

--------------------------------------------------------------------------
(* Transaction layer *)

\* variant: the bytes are left in place
Swap_None(r) == r

\* variant: the third XOR assignment is missing
Swap_TwoXors(r) ==
    LET a0 == Xor8(r[1], r[2])
        a1 == Xor8(r[2], a0)
    IN  <<a0, a1>>

\* the three XOR assignments on raw_data[0], raw_data[1]
Swap(r) ==
    LET a0 == Xor8(r[1], r[2])
        a1 == Xor8(r[2], a0)
        b0 == Xor8(a0, a1)
    IN  <<b0, a1>>

\* one transaction as seen on the bus; word is the two data bytes, first byte
\* in the high half
Txn(kind, addr, reg, word, ok) ==
    [kind |-> kind, addr |-> addr, reg |-> reg, word |-> word, ok |-> ok]

\* What the chip does to its registers when MemAddress is read ("This
\* function will reset the alert pin if it was in the latch mode", said of
\* each function that reads register 0x06): with the latch bit (bit 0) set,
\* the alert-function flag (bit 4) is cleared by the read.
ChipAfterRead(c, MemAddress) ==
    IF MemAddress = MASK_ENABLE_REGISTER /\ Bit(c[MASK_ENABLE_REGISTER], 0) = 1
    THEN [c EXCEPT ![MASK_ENABLE_REGISTER] = SetField(@, 4, 1, 0)]
    ELSE c

\* variant: the swap is done whatever HAL_I2C_Mem_Read returned
__INA234_readTwoBytes_SwapOnFail(s, MemAddress, hal_ok) ==
    LET data == s.chip[MemAddress]
    IN  IF hal_ok
        THEN [s EXCEPT !.raw = Swap(<<data \div 256, data % 256>>),
                       !.bus = Append(@, Txn("R", s.dev.I2C_ADDR, MemAddress, data, TRUE)),
                       !.chip = ChipAfterRead(@, MemAddress),
                       !.status = STATUS_OK]
        ELSE [s EXCEPT !.raw = Swap(@),
                       !.bus = Append(@, Txn("R", s.dev.I2C_ADDR, MemAddress, 0, FALSE)),
                       !.status = STATUS_TimeOut]

\* variant: the received bytes stay where HAL_I2C_Mem_Read put them
__INA234_readTwoBytes_LowByteFirst(s, MemAddress, hal_ok) ==
    LET data == s.chip[MemAddress]
    IN  IF hal_ok
        THEN [s EXCEPT !.raw = <<data \div 256, data % 256>>,
                       !.bus = Append(@, Txn("R", s.dev.I2C_ADDR, MemAddress, data, TRUE)),
                       !.chip = ChipAfterRead(@, MemAddress),
                       !.status = STATUS_OK]
        ELSE [s EXCEPT !.bus = Append(@, Txn("R", s.dev.I2C_ADDR, MemAddress, 0, FALSE)),
                       !.status = STATUS_TimeOut]

\* s is [dev, raw, chip, bus, status].  hal_ok: HAL_I2C_Mem_Read returned
\* HAL_OK, having stored the two received bytes in raw_data in bus order.
__INA234_readTwoBytes(s, MemAddress, hal_ok) ==
    LET data == s.chip[MemAddress]
    IN  IF hal_ok
        THEN [s EXCEPT !.raw = Swap(<<data \div 256, data % 256>>),
                       !.bus = Append(@, Txn("R", s.dev.I2C_ADDR, MemAddress, data, TRUE)),
                       !.chip = ChipAfterRead(@, MemAddress),
                       !.status = STATUS_OK]
        ELSE [s EXCEPT !.bus = Append(@, Txn("R", s.dev.I2C_ADDR, MemAddress, 0, FALSE)),
                       !.status = STATUS_TimeOut]

\* variant: the result of HAL_I2C_Mem_Write is not looked at
__INA234_writeTwoBytes_AlwaysOk(s, MemAddress, hal_ok) ==
    LET r == Swap(s.raw)
        sent == r[1] * 256 + r[2]
    IN  [s EXCEPT !.raw = r,
                  !.bus = Append(@, Txn("W", s.dev.I2C_ADDR, MemAddress, sent, hal_ok)),
                  !.chip = IF hal_ok THEN [@ EXCEPT ![MemAddress] = sent] ELSE @,
                  !.status = STATUS_OK]

\* variant: a write that failed is issued a second time
__INA234_writeTwoBytes_Retry(s, MemAddress, hal_ok) ==
    LET r == Swap(s.raw)
        sent == r[1] * 256 + r[2]
        t == Txn("W", s.dev.I2C_ADDR, MemAddress, sent, hal_ok)
    IN  [s EXCEPT !.raw = r,
                  !.bus = IF hal_ok THEN Append(@, t) ELSE Append(Append(@, t), t),
                  !.chip = IF hal_ok THEN [@ EXCEPT ![MemAddress] = sent] ELSE @,
                  !.status = IF hal_ok THEN STATUS_OK ELSE STATUS_TimeOut]

\* hal_ok: HAL_I2C_Mem_Write returned HAL_OK and the chip took the word.
__INA234_writeTwoBytes(s, MemAddress, hal_ok) ==
    LET r == Swap(s.raw)
        sent == r[1] * 256 + r[2]
    IN  [s EXCEPT !.raw = r,
                  !.bus = Append(@, Txn("W", s.dev.I2C_ADDR, MemAddress, sent, hal_ok)),
                  !.chip = IF hal_ok THEN [@ EXCEPT ![MemAddress] = sent] ELSE @,
                  !.status = IF hal_ok THEN STATUS_OK ELSE STATUS_TimeOut]

--------------------------------------------------------------------------
(* Device initialisation *)

\* variant: the two conversion times go to each other's field
INA234_init_TimesExchanged(s, I2C_ADDR, ShuntResistor, adc_range, numer_of_adc_samples, vbus_conversion_time, vshunt_conversion_time, mode, hal1, hal2, shunt_cal) ==
    LET d  == [s.dev EXCEPT !.I2C_ADDR = (I2C_ADDR * 2) % 256,
                            !.ShuntResistor = ShuntResistor,
                            !.adc_range = adc_range,
                            !.number_of_adc_samples = numer_of_adc_samples,
                            !.vbus_conversion_time = vbus_conversion_time,
                            !.vshunt_conversion_time = vshunt_conversion_time,
                            !.mode = mode]
        c1 == SetField(Word(s.raw), 15, 1, 0)
        c2 == SetField(c1, 12, 1, adc_range)
        c3 == SetField(c2, 9, 3, numer_of_adc_samples)
        c4 == SetField(c3, 6, 3, vshunt_conversion_time)
        c5 == SetField(c4, 3, 3, vbus_conversion_time)
        c6 == SetField(c5, 0, 3, mode)
        s1 == __INA234_writeTwoBytes([s EXCEPT !.dev = d, !.raw = Store(c6)],
                                     CONFIGURATION_REGISTER, hal1)
        k  == SetField(Word(s1.raw), 0, 15, shunt_cal)
    IN  IF s1.status # STATUS_OK
        THEN [s1 EXCEPT !.status = STATUS_TimeOut]
        ELSE __INA234_writeTwoBytes([s1 EXCEPT !.raw = Store(k)],
                                    CALIBRATION_REGISTER, hal2)

\* hal1, hal2: outcome of the first and of the second bus write;
\* shunt_cal: the outcome of the uint16_t conversion
INA234_init(s, I2C_ADDR, ShuntResistor, adc_range, numer_of_adc_samples, vbus_conversion_time, vshunt_conversion_time, mode, hal1, hal2, shunt_cal) ==
    LET d  == [s.dev EXCEPT !.I2C_ADDR = (I2C_ADDR * 2) % 256,
                            !.ShuntResistor = ShuntResistor,
                            !.adc_range = adc_range,
                            !.number_of_adc_samples = numer_of_adc_samples,
                            !.vbus_conversion_time = vbus_conversion_time,
                            !.vshunt_conversion_time = vshunt_conversion_time,
                            !.mode = mode]
        c1 == SetField(Word(s.raw), 15, 1, 0)
        c2 == SetField(c1, 12, 1, adc_range)
        c3 == SetField(c2, 9, 3, numer_of_adc_samples)
        c4 == SetField(c3, 6, 3, vbus_conversion_time)
        c5 == SetField(c4, 3, 3, vshunt_conversion_time)
        c6 == SetField(c5, 0, 3, mode)
        s1 == __INA234_writeTwoBytes([s EXCEPT !.dev = d, !.raw = Store(c6)],
                                     CONFIGURATION_REGISTER, hal1)
        k  == SetField(Word(s1.raw), 0, 15, shunt_cal)
    IN  IF s1.status # STATUS_OK
        THEN [s1 EXCEPT !.status = STATUS_TimeOut]
        ELSE __INA234_writeTwoBytes([s1 EXCEPT !.raw = Store(k)],
                                    CALIBRATION_REGISTER, hal2)

\* variant: the two shunt LSBs are taken for each other's range
AlertLsbInv_ShuntExchanged(alert_on, adc_range) ==
    CASE alert_on \in {ALERT_BUS_OVER_LIMIT, ALERT_BUS_UNDER_LIMIT} ->
            BUS_VOLTAGE_LSB_INV
      [] alert_on \in {ALERT_SHUNT_OVER_LIMIT, ALERT_SHUNT_UNDER_LIMIT} ->
            IF adc_range = RANGE_20_48mV THEN SHUNT_VOLTAGE_81_92mv_LSB_INV
            ELSE SHUNT_VOLTAGE_20_48mv_LSB_INV
      [] alert_on = ALERT_POWER_OVER_LIMIT -> POWER_LSB_INV

\* the LSB reciprocal the switch on alert_on selects
AlertLsbInv(alert_on, adc_range) ==
    CASE alert_on \in {ALERT_BUS_OVER_LIMIT, ALERT_BUS_UNDER_LIMIT} ->
            BUS_VOLTAGE_LSB_INV
      [] alert_on \in {ALERT_SHUNT_OVER_LIMIT, ALERT_SHUNT_UNDER_LIMIT} ->
            IF adc_range = RANGE_20_48mV THEN SHUNT_VOLTAGE_20_48mv_LSB_INV
            ELSE SHUNT_VOLTAGE_81_92mv_LSB_INV
      [] alert_on = ALERT_POWER_OVER_LIMIT -> POWER_LSB_INV

\* variant: the bus over-limit and under-limit enables are exchanged
INA234_alert_init_BusExchanged(s, alert_on, alert_polarity, alert_latch, alert_conv_ready, alert_limit, hal1, hal2) ==
    LET li == IF alert_on = ALERT_NONE THEN 32767
              ELSE DivLsb(alert_limit, AlertLsbInv(alert_on, s.dev.adc_range))
        d  == [s.dev EXCEPT !.alert_on = alert_on,
                            !.alert_polarity = alert_polarity,
                            !.alert_latch = alert_latch,
                            !.alert_conv_ready = alert_conv_ready,
                            !.alert_limit = alert_limit,
                            !.alert_limit_int = li]
        s1 == __INA234_writeTwoBytes([s EXCEPT !.dev = d, !.raw = Store(li % 65536)],
                                     ALERT_LIMIT_REGISTER, hal1)
        m1 == SetField(Word(s1.raw), 15, 1, IF alert_on = ALERT_SHUNT_OVER_LIMIT THEN 1 ELSE 0)
        m2 == SetField(m1, 14, 1, IF alert_on = ALERT_SHUNT_UNDER_LIMIT THEN 1 ELSE 0)
        m3 == SetField(m2, 13, 1, IF alert_on = ALERT_BUS_UNDER_LIMIT THEN 1 ELSE 0)
        m4 == SetField(m3, 12, 1, IF alert_on = ALERT_BUS_OVER_LIMIT THEN 1 ELSE 0)
        m5 == SetField(m4, 11, 1, IF alert_on = ALERT_POWER_OVER_LIMIT THEN 1 ELSE 0)
        m6 == SetField(m5, 10, 1, alert_conv_ready)
        m7 == SetField(m6, 1, 1, alert_polarity)
        m8 == SetField(m7, 0, 1, alert_latch)
    IN  IF s1.status # STATUS_OK
        THEN [s1 EXCEPT !.status = STATUS_TimeOut]
        ELSE __INA234_writeTwoBytes([s1 EXCEPT !.raw = Store(m8)],
                                    MASK_ENABLE_REGISTER, hal2)

INA234_alert_init(s, alert_on, alert_polarity, alert_latch, alert_conv_ready, alert_limit, hal1, hal2) ==
    LET li == IF alert_on = ALERT_NONE THEN 32767
              ELSE DivLsb(alert_limit, AlertLsbInv(alert_on, s.dev.adc_range))
        d  == [s.dev EXCEPT !.alert_on = alert_on,
                            !.alert_polarity = alert_polarity,
                            !.alert_latch = alert_latch,
                            !.alert_conv_ready = alert_conv_ready,
                            !.alert_limit = alert_limit,
                            !.alert_limit_int = li]
        s1 == __INA234_writeTwoBytes([s EXCEPT !.dev = d, !.raw = Store(li % 65536)],
                                     ALERT_LIMIT_REGISTER, hal1)
        m1 == SetField(Word(s1.raw), 15, 1, IF alert_on = ALERT_SHUNT_OVER_LIMIT THEN 1 ELSE 0)
        m2 == SetField(m1, 14, 1, IF alert_on = ALERT_SHUNT_UNDER_LIMIT THEN 1 ELSE 0)
        m3 == SetField(m2, 13, 1, IF alert_on = ALERT_BUS_OVER_LIMIT THEN 1 ELSE 0)
        m4 == SetField(m3, 12, 1, IF alert_on = ALERT_BUS_UNDER_LIMIT THEN 1 ELSE 0)
        m5 == SetField(m4, 11, 1, IF alert_on = ALERT_POWER_OVER_LIMIT THEN 1 ELSE 0)
        m6 == SetField(m5, 10, 1, alert_conv_ready)
        m7 == SetField(m6, 1, 1, alert_polarity)
        m8 == SetField(m7, 0, 1, alert_latch)
    IN  IF s1.status # STATUS_OK
        THEN [s1 EXCEPT !.status = STATUS_TimeOut]
        ELSE __INA234_writeTwoBytes([s1 EXCEPT !.raw = Store(m8)],
                                    MASK_ENABLE_REGISTER, hal2)

--------------------------------------------------------------------------
(* Configuration setters and accessors *)

INA234_setADCRange(s, adc_range, hal1, hal2) ==
    LET s1 == __INA234_readTwoBytes(s, CONFIGURATION_REGISTER, hal1)
    IN  IF s1.status = STATUS_OK
        THEN __INA234_writeTwoBytes(
                 [s1 EXCEPT !.raw = Store(SetField(Word(s1.raw), 12, 1, adc_range))],
                 CONFIGURATION_REGISTER, hal2)
        ELSE [s1 EXCEPT !.status = STATUS_TimeOut]

INA234_setNumberOfADCSamples(s, numer_of_adc_samples, hal1, hal2) ==
    LET s1 == __INA234_readTwoBytes(s, CONFIGURATION_REGISTER, hal1)
    IN  IF s1.status = STATUS_OK
        THEN __INA234_writeTwoBytes(
                 [s1 EXCEPT !.raw = Store(SetField(Word(s1.raw), 9, 3, numer_of_adc_samples))],
                 CONFIGURATION_REGISTER, hal2)
        ELSE [s1 EXCEPT !.status = STATUS_TimeOut]

INA234_setVBusConversionTime(s, vbus_conversion_time, hal1, hal2) ==
    LET s1 == __INA234_readTwoBytes(s, CONFIGURATION_REGISTER, hal1)
    IN  IF s1.status = STATUS_OK
        THEN __INA234_writeTwoBytes(
                 [s1 EXCEPT !.raw = Store(SetField(Word(s1.raw), 6, 3, vbus_conversion_time))],
                 CONFIGURATION_REGISTER, hal2)
        ELSE [s1 EXCEPT !.status = STATUS_TimeOut]

INA234_setVShuntConversionTime(s, vshunt_conversion_time, hal1, hal2) ==
    LET s1 == __INA234_readTwoBytes(s, CONFIGURATION_REGISTER, hal1)
    IN  IF s1.status = STATUS_OK
        THEN __INA234_writeTwoBytes(
                 [s1 EXCEPT !.raw = Store(SetField(Word(s1.raw), 3, 3, vshunt_conversion_time))],
                 CONFIGURATION_REGISTER, hal2)
        ELSE [s1 EXCEPT !.status = STATUS_TimeOut]

INA234_setMode(s, mode, hal1, hal2) ==
    LET s1 == __INA234_readTwoBytes(s, CONFIGURATION_REGISTER, hal1)
    IN  IF s1.status = STATUS_OK
        THEN __INA234_writeTwoBytes(
                 [s1 EXCEPT !.raw = Store(SetField(Word(s1.raw), 0, 3, mode))],
                 CONFIGURATION_REGISTER, hal2)
        ELSE [s1 EXCEPT !.status = STATUS_TimeOut]

INA234_getADCRange == dev.adc_range
INA234_getNumberOfADCSamples == dev.number_of_adc_samples
INA234_getVBusConversionTime == dev.vbus_conversion_time
INA234_getVShuntConversionTime == dev.vshunt_conversion_time
INA234_getMode == dev.mode

--------------------------------------------------------------------------
(* Reset, identification, measurements and flags *)

\* a master transmission of the given bytes to a bus address
Transmit(addr, bytes, ok) == [kind |-> "T", addr |-> addr, bytes |-> bytes, ok |-> ok]

\* variant: the command is sent to the Device's own address
INA234_SoftResetAll_OwnAddress(s, hal_ok) ==
    [s EXCEPT !.bus = Append(@, Transmit(s.dev.I2C_ADDR, <<6>>, hal_ok))]

\* hal_ok: the result of HAL_I2C_Master_Transmit, which the function drops
INA234_SoftResetAll(s, hal_ok) ==
    [s EXCEPT !.bus = Append(@, Transmit(0, <<6>>, hal_ok))]

\* The getters below call __INA234_readTwoBytes, do not look at its result
\* and decode whatever the register image then holds; ret is the value
\* returned.
INA234_getManID(s, hal_ok) ==
    LET s1 == __INA234_readTwoBytes(s, MANUFACTURERID_REGISTER, hal_ok)
    IN  [s1 EXCEPT !.ret = Word(s1.raw)]

INA234_getDevID(s, hal_ok) ==
    LET s1 == __INA234_readTwoBytes(s, DEVICEID_REGISTER, hal_ok)
    IN  [s1 EXCEPT !.ret = GetField(Word(s1.raw), 4, 12)]

\* variant: the field is taken from the low twelve bits of the image
INA234_getCurrent_LowBits(s, hal_ok) ==
    LET s1 == __INA234_readTwoBytes(s, CURRENT_REGISTER, hal_ok)
        x  == TimesCurrentLsb(SignedField(GetField(Word(s1.raw), 0, 12), 12))
    IN  [s1 EXCEPT !.dev.Current = x, !.ret = x]

INA234_getCurrent(s, hal_ok) ==
    LET s1 == __INA234_readTwoBytes(s, CURRENT_REGISTER, hal_ok)
        x  == TimesCurrentLsb(SignedField(GetField(Word(s1.raw), 4, 12), 12))
    IN  [s1 EXCEPT !.dev.Current = x, !.ret = x]

\* variant: the field is taken twelve bits wide, bit 15 included
INA234_getBusVoltage_TwelveBits(s, hal_ok) ==
    LET s1 == __INA234_readTwoBytes(s, BUS_VOLTAGE_REGISTER, hal_ok)
        x  == TimesLsb(GetField(Word(s1.raw), 4, 12), BUS_VOLTAGE_LSB_INV)
    IN  [s1 EXCEPT !.dev.BusVoltage = x, !.ret = x]

INA234_getBusVoltage(s, hal_ok) ==
    LET s1 == __INA234_readTwoBytes(s, BUS_VOLTAGE_REGISTER, hal_ok)
        x  == TimesLsb(GetField(Word(s1.raw), 4, 11), BUS_VOLTAGE_LSB_INV)
    IN  [s1 EXCEPT !.dev.BusVoltage = x, !.ret = x]

INA234_getShuntVoltage(s, hal_ok) ==
    LET s1 == __INA234_readTwoBytes(s, SHUNT_VOLTAGE_REGISTER, hal_ok)
        x  == TimesLsb(SignedField(GetField(Word(s1.raw), 4, 12), 12),
                       IF s1.dev.adc_range = RANGE_20_48mV
                       THEN SHUNT_VOLTAGE_20_48mv_LSB_INV
                       ELSE SHUNT_VOLTAGE_81_92mv_LSB_INV)
    IN  [s1 EXCEPT !.dev.ShuntVoltage = x, !.ret = x]

INA234_getPower(s, hal_ok) ==
    LET s1 == __INA234_readTwoBytes(s, POWER_REGISTER, hal_ok)
        x  == TimesLsb(Word(s1.raw), POWER_LSB_INV)
    IN  [s1 EXCEPT !.dev.Power = x, !.ret = x]

\* variant: the current is read before the power
INA234_readAll_CurrentBeforePower(s, hal) ==
    INA234_getPower(
        INA234_getCurrent(
            INA234_getBusVoltage(
                INA234_getShuntVoltage(s, hal[1]), hal[2]), hal[3]), hal[4])

\* hal: the results of the four reads, in the order they are issued
INA234_readAll(s, hal) ==
    INA234_getCurrent(
        INA234_getPower(
            INA234_getBusVoltage(
                INA234_getShuntVoltage(s, hal[1]), hal[2]), hal[3]), hal[4])

INA234_isDataReady(s, hal_ok) ==
    LET s1 == __INA234_readTwoBytes(s, MASK_ENABLE_REGISTER, hal_ok)
    IN  [s1 EXCEPT !.ret = IF GetField(Word(s1.raw), 3, 1) = 1 THEN 1 ELSE 0]

INA234_getAlertSource(s, hal_ok) ==
    LET s1 == __INA234_readTwoBytes(s, MASK_ENABLE_REGISTER, hal_ok)
    IN  [s1 EXCEPT !.ret = IF GetField(Word(s1.raw), 4, 1) # 0
                           THEN ALERT_LIMIT_REACHED ELSE ALERT_DATA_READY]

\* variant: the test for both flags comes after the test for MemError
INA234_getErrors_MemoryFirst(s, hal_ok) ==
    LET s1 == __INA234_readTwoBytes(s, MASK_ENABLE_REGISTER, hal_ok)
        MemError == GetField(Word(s1.raw), 5, 1)
        OVF == GetField(Word(s1.raw), 2, 1)
    IN  [s1 EXCEPT !.ret = IF MemError # 0 THEN ERROR_MEMORY
                           ELSE IF MemError # 0 /\ OVF # 0 THEN ERROR_BOTH_MEMORY_OVF
                           ELSE IF OVF # 0 THEN ERROR_OVF
                           ELSE ERROR_NONE]

INA234_getErrors(s, hal_ok) ==
    LET s1 == __INA234_readTwoBytes(s, MASK_ENABLE_REGISTER, hal_ok)
        MemError == GetField(Word(s1.raw), 5, 1)
        OVF == GetField(Word(s1.raw), 2, 1)
    IN  [s1 EXCEPT !.ret = IF MemError # 0 /\ OVF # 0 THEN ERROR_BOTH_MEMORY_OVF
                           ELSE IF MemError # 0 THEN ERROR_MEMORY
                           ELSE IF OVF # 0 THEN ERROR_OVF
                           ELSE ERROR_NONE]

\* variant: the register read is the configuration register
INA234_resetAlert_ReadsConfiguration(s, hal_ok) == __INA234_readTwoBytes(s, CONFIGURATION_REGISTER, hal_ok)

INA234_resetAlert(s, hal_ok) == __INA234_readTwoBytes(s, MASK_ENABLE_REGISTER, hal_ok)

--------------------------------------------------------------------------
(* State after construction, and the calls *)

\* main.c: "INA234 ina234;" at file scope, so every field starts as zero
DevZero ==
    [I2C_ADDR |-> 0, ShuntResistor |-> Float(0, 0),
     adc_range |-> 0, number_of_adc_samples |-> 0, vbus_conversion_time |-> 0,
     vshunt_conversion_time |-> 0, mode |-> 0,
     alert_on |-> 0, alert_polarity |-> 0, alert_latch |-> 0,
     alert_conv_ready |-> 0, alert_limit |-> Float(0, 0), alert_limit_int |-> 0,
     ShuntVoltage |-> Float(0, 0), BusVoltage |-> Float(0, 0),
     Power |-> Float(0, 0), Current |-> Float(0, 0)]

\* The driver cannot know the configuration word the chip holds when it is
\* first addressed; two words that differ in every field and reserved bit.
ChipConfigAtStart == {16450, 11941}

ChipRegisters == {CONFIGURATION_REGISTER, SHUNT_VOLTAGE_REGISTER,
                  BUS_VOLTAGE_REGISTER, POWER_REGISTER, CURRENT_REGISTER,
                  CALIBRATION_REGISTER, MASK_ENABLE_REGISTER,
                  ALERT_LIMIT_REGISTER, MANUFACTURERID_REGISTER,
                  DEVICEID_REGISTER}

Init ==
    /\ dev = DevZero
    /\ raw = <<0, 0>>
    /\ \E c \in ChipConfigAtStart :
          chip = [r \in ChipRegisters |-> IF r = CONFIGURATION_REGISTER THEN c ELSE 0]
    /\ bus = <<>>
    /\ call = [op |-> "none", args |-> <<>>, status |-> STATUS_OK, ret |-> 0]
    /\ nops = 0

\* the machine a call starts from
Cur == [dev |-> dev, raw |-> raw, chip |-> chip, bus |-> <<>>, status |-> STATUS_OK,
        ret |-> 0]

\* the machine a call leaves behind, with the record of the call; the
\* function returns a Status
Return(s, op, args) ==
    /\ dev' = s.dev
    /\ raw' = s.raw
    /\ chip' = s.chip
    /\ bus' = s.bus
    /\ call' = [op |-> op, args |-> args, status |-> s.status, ret |-> s.status]
    /\ nops' = nops + 1

\* what a caller holds in place of a Status after a function that returns
\* none
NoStatus == 2

\* the same for a function that returns a value or nothing: the caller gets
\* ret and no Status
ReturnValue(s, op, args) ==
    /\ dev' = s.dev
    /\ raw' = s.raw
    /\ chip' = s.chip
    /\ bus' = s.bus
    /\ call' = [op |-> op, args |-> args, status |-> NoStatus, ret |-> s.ret]
    /\ nops' = nops + 1

\* outcomes of the (at most) two bus transactions of a call; the second one
\* is only issued when the first succeeded
Hal == { <<TRUE, TRUE>>, <<TRUE, FALSE>>, <<FALSE, FALSE>> }

\* values for the 3-bit arguments of the setters: 000, 010, 101, 111
FieldSample == {0, 2, 5, 7}

\* the I2C address of the call sites (main.c, README)
I2cAddress == 72

\* arguments of INA234_init: <<ShuntResistor, adc_range, numer_of_adc_samples,
\* vbus_conversion_time, vshunt_conversion_time, mode>>
\* every configuration with two resistances (1 and 2.5), and every resistance
\* from 1/8 to MaxShuntEighths/8 with both ranges
InitArgsAll ==
    ({Float(1, 0), Float(5, 1)} \X ADCRange \X NumSamples \X ConvTime \X ConvTime \X Mode)
    \cup ({Float(n, 3) : n \in 1..MaxShuntEighths} \X ADCRange \X {2} \X {4, 7} \X {0} \X {7})

\* main.c, the README's quick start, and an 81.92 mV configuration
InitArgsSample ==
    { <<Float(1, 0), RANGE_20_48mV, 0, 0, 0, 5>>,
      <<Float(1, 0), RANGE_20_48mV, 2, 4, 0, 7>>,
      <<Float(5, 1), RANGE_81_92mV, 7, 6, 3, 1>> }

CallInit(argset) ==
    \E a \in argset, hal \in Hal :
      \E shunt_cal \in CastU16(ShuntCalQuotient(a[2], a[1])) :
        Return(INA234_init(Cur, I2cAddress, a[1], a[2], a[3], a[4], a[5], a[6],
                           hal[1], hal[2], shunt_cal),
               "init", a)

\* decimal constants a caller passes as alert_limit, per kind of source;
\* <<sign, num, den>> stands for sign * num / den
BusLimits == { <<1, 33, 10>>, <<1, 1, 2>>, <<1, 12, 1>>, <<1, 28, 1>>, <<1, 0, 1>>,
               <<1, 51, 10>>, <<1, 1, 10>>, <<1, 1, 40>>, <<1, 819, 1>> }
ShuntLimits == { <<1, 5, 2>>, <<1, 104, 10>>, <<-1, 5, 2>>, <<-1, 104, 10>>,
                 <<1, 20, 1>>, <<1, 80, 1>>, <<1, 1, 100>>, <<-1, 1, 64>>, <<1, 0, 1>> }
PowerLimits == { <<1, 1, 2>>, <<1, 5, 4>>, <<1, 2, 1>>, <<1, 3, 1>>, <<1, 5, 1>>,
                 <<1, 0, 1>>, <<1, 1, 64>>, <<1, 5, 2>>, <<1, 41, 16>> }

LimitsOf(alert_on) ==
    CASE alert_on \in {ALERT_BUS_OVER_LIMIT, ALERT_BUS_UNDER_LIMIT} -> BusLimits
      [] alert_on \in {ALERT_SHUNT_OVER_LIMIT, ALERT_SHUNT_UNDER_LIMIT} -> ShuntLimits
      [] alert_on = ALERT_POWER_OVER_LIMIT -> PowerLimits
      [] OTHER -> { <<1, 5, 2>>, <<1, 0, 1>> }

\* arguments of INA234_alert_init: <<alert_on, alert_polarity, alert_latch,
\* alert_conv_ready, the decimal constant>>
AlertArgsAll ==
    UNION { {a} \X AlertPolarity \X AlertLatch \X AlertConvReady \X LimitsOf(a) :
            a \in AlertOn }

\* main.c's call and one call per other kind of source
AlertArgsSample ==
    { <<ALERT_SHUNT_OVER_LIMIT, 0, 0, 0, <<1, 5, 2>> >>,
      <<ALERT_BUS_OVER_LIMIT, 1, 1, 1, <<1, 33, 10>> >>,
      <<ALERT_POWER_OVER_LIMIT, 1, 0, 1, <<1, 2, 1>> >>,
      <<ALERT_NONE, 0, 1, 0, <<1, 0, 1>> >> }

\* the float the callee receives for the decimal constant c
LimitOf(c) == ToFloat(c[1], c[2], c[3])

CallAlertInit(argset) ==
    \E a \in argset, hal \in Hal :
        Return(INA234_alert_init(Cur, a[1], a[2], a[3], a[4], LimitOf(a[5]), hal[1], hal[2]),
               "alert_init", a)

CallSetADCRange ==
    \E v \in ADCRange, hal \in Hal :
        Return(INA234_setADCRange(Cur, v, hal[1], hal[2]), "setADCRange", v)

CallSetNumberOfADCSamples ==
    \E v \in FieldSample, hal \in Hal :
        Return(INA234_setNumberOfADCSamples(Cur, v, hal[1], hal[2]), "setNumberOfADCSamples", v)

CallSetVBusConversionTime ==
    \E v \in FieldSample, hal \in Hal :
        Return(INA234_setVBusConversionTime(Cur, v, hal[1], hal[2]), "setVBusConversionTime", v)

CallSetVShuntConversionTime ==
    \E v \in FieldSample, hal \in Hal :
        Return(INA234_setVShuntConversionTime(Cur, v, hal[1], hal[2]), "setVShuntConversionTime", v)

CallSetMode ==
    \E v \in FieldSample, hal \in Hal :
        Return(INA234_setMode(Cur, v, hal[1], hal[2]), "setMode", v)

--------------------------------------------------------------------------
(* Specifications *)

\* Any MaxOps calls of init, alert_init and the setters, in any order.
Init_ == nops < MaxOps /\ CallInit(InitArgsSample)
AlertInit_ == nops < MaxOps /\ CallAlertInit(AlertArgsSample)
SetADCRange_ == nops < MaxOps /\ CallSetADCRange
SetNumberOfADCSamples_ == nops < MaxOps /\ CallSetNumberOfADCSamples
SetVBusConversionTime_ == nops < MaxOps /\ CallSetVBusConversionTime
SetVShuntConversionTime_ == nops < MaxOps /\ CallSetVShuntConversionTime
SetMode_ == nops < MaxOps /\ CallSetMode

Next ==
    \/ Init_
    \/ AlertInit_
    \/ SetADCRange_
    \/ SetNumberOfADCSamples_
    \/ SetVBusConversionTime_
    \/ SetVShuntConversionTime_
    \/ SetMode_

Spec == Init /\ [][Next]_vars

\* init as the first call after construction, and init called again after
\* the init of main.c has succeeded (the register image then holds the bytes
\* of the calibration write), each with every combination of arguments.
MainInitArgs == <<Float(1, 0), RANGE_20_48mV, 0, 0, 0, 5>>

FirstInit == call.op = "none" /\ CallInit(InitArgsAll)
SecondInit ==
    /\ nops = 1 /\ call.op = "init" /\ call.args = MainInitArgs
    /\ call.status = STATUS_OK
    /\ CallInit(InitArgsAll)

NextInit == FirstInit \/ SecondInit

SpecInit == Init /\ [][NextInit]_vars

\* init, then one alert_init with every combination of its arguments.
SetupInit == call.op = "none" /\ CallInit(InitArgsSample)
OneAlertInit == call.op = "init" /\ CallAlertInit(AlertArgsAll)

NextAlert == SetupInit \/ OneAlertInit

SpecAlert == Init /\ [][NextAlert]_vars

\* byte values: all zeros, all ones, single bits, alternating bits, nibbles
ByteSample == {0, 1, 2, 15, 16, 51, 85, 90, 127, 128, 129, 170, 204, 240, 254, 255}

\* the words a register can hold when it is read: every pair of those bytes
TxnWords == {hi * 256 + lo : hi \in ByteSample, lo \in ByteSample}

\* a call of __INA234_readTwoBytes on a register that holds w at that moment
CallReadTwoBytes(regs, words) ==
    \E MemAddress \in regs, w \in words, hal_ok \in BOOLEAN :
        Return(__INA234_readTwoBytes([Cur EXCEPT !.chip[MemAddress] = w], MemAddress, hal_ok),
               "readTwoBytes", MemAddress)

CallWriteTwoBytes(regs) ==
    \E MemAddress \in regs, hal_ok \in BOOLEAN :
        Return(__INA234_writeTwoBytes(Cur, MemAddress, hal_ok), "writeTwoBytes", MemAddress)

\* The transaction layer on its own: after the init of main.c, a read of any
\* of the words, and then reads and writes up to MaxTxn transactions.
TxnSetup == call.op = "none" /\ CallInit({MainInitArgs})
TxnRead ==
    /\ call.op = "init" /\ call.status = STATUS_OK
    /\ CallReadTwoBytes({SHUNT_VOLTAGE_REGISTER, MASK_ENABLE_REGISTER}, TxnWords)
TxnReadAgain ==
    /\ call.op \in {"readTwoBytes", "writeTwoBytes"} /\ nops <= MaxTxn
    /\ CallReadTwoBytes({CONFIGURATION_REGISTER}, {4101, 43605})
TxnWrite ==
    /\ call.op \in {"readTwoBytes", "writeTwoBytes"} /\ nops <= MaxTxn
    /\ CallWriteTwoBytes({CONFIGURATION_REGISTER, ALERT_LIMIT_REGISTER})

\* the register a write went to is read back, the chip holding what it took
TxnReadBack ==
    /\ call.op = "writeTwoBytes" /\ call.status = STATUS_OK
    /\ CallReadTwoBytes({call.args}, {chip[call.args]})

NextTxn == TxnSetup \/ TxnRead \/ TxnReadAgain \/ TxnWrite \/ TxnReadBack

SpecTxn == Init /\ [][NextTxn]_vars

\* The words a getter finds in its register: the chip holds w in the register
\* when the read succeeds, and the read is not answered when it fails.
WordsRead(MemAddress, words, hal_ok) == IF hal_ok THEN words ELSE {chip[MemAddress]}

\* the machine a call starts from, with the chip holding w in a register
CurWith(MemAddress, w) == [Cur EXCEPT !.chip[MemAddress] = w]

CallGetShuntVoltage(words) ==
    \E hal_ok \in BOOLEAN : \E w \in WordsRead(SHUNT_VOLTAGE_REGISTER, words, hal_ok) :
        ReturnValue(INA234_getShuntVoltage(CurWith(SHUNT_VOLTAGE_REGISTER, w), hal_ok),
                    "getShuntVoltage", <<>>)

CallGetBusVoltage(words) ==
    \E hal_ok \in BOOLEAN : \E w \in WordsRead(BUS_VOLTAGE_REGISTER, words, hal_ok) :
        ReturnValue(INA234_getBusVoltage(CurWith(BUS_VOLTAGE_REGISTER, w), hal_ok),
                    "getBusVoltage", <<>>)

CallGetPower(words) ==
    \E hal_ok \in BOOLEAN : \E w \in WordsRead(POWER_REGISTER, words, hal_ok) :
        ReturnValue(INA234_getPower(CurWith(POWER_REGISTER, w), hal_ok),
                    "getPower", <<>>)

CallGetCurrent(words) ==
    \E hal_ok \in BOOLEAN : \E w \in WordsRead(CURRENT_REGISTER, words, hal_ok) :
        ReturnValue(INA234_getCurrent(CurWith(CURRENT_REGISTER, w), hal_ok),
                    "getCurrent", <<>>)

CallGetManID(words) ==
    \E hal_ok \in BOOLEAN : \E w \in WordsRead(MANUFACTURERID_REGISTER, words, hal_ok) :
        ReturnValue(INA234_getManID(CurWith(MANUFACTURERID_REGISTER, w), hal_ok),
                    "getManID", <<>>)

CallGetDevID(words) ==
    \E hal_ok \in BOOLEAN : \E w \in WordsRead(DEVICEID_REGISTER, words, hal_ok) :
        ReturnValue(INA234_getDevID(CurWith(DEVICEID_REGISTER, w), hal_ok),
                    "getDevID", <<>>)

\* every 12-bit field value with the low four bits clear, and the field
\* values that are 0 or 63 modulo 64 with the low four bits 1001 and 1111
SignedWords ==
    {f * 16 : f \in 0..4095}
    \cup {f * 16 + n : f \in {g \in 0..4095 : g % 64 \in {0, 63}}, n \in {9, 15}}

\* a few words for each kind of register
MeasureWords == {0, 15, 16, 4660, 32752, 32767, 32768, 32784, 43981, 65520, 65535}

\* A successful init and then one reading of the shunt voltage or of the
\* current, the register holding any of SignedWords.
MeasureSetup == call.op = "none" /\ CallInit(InitArgsSample)
MeasureShunt ==
    /\ call.op = "init" /\ call.status = STATUS_OK
    /\ CallGetShuntVoltage(SignedWords)
MeasureCurrent ==
    /\ call.op = "init" /\ call.status = STATUS_OK
    /\ CallGetCurrent(SignedWords)

MeasureBus ==
    /\ call.op = "init" /\ call.status = STATUS_OK
    /\ CallGetBusVoltage(SignedWords \cup MeasureWords)
MeasurePower ==
    /\ call.op = "init" /\ call.status = STATUS_OK
    /\ CallGetPower(SignedWords \cup MeasureWords)
MeasureManID ==
    /\ call.op = "init" /\ call.status = STATUS_OK
    /\ CallGetManID(MeasureWords \cup {21577})
MeasureDevID ==
    /\ call.op = "init" /\ call.status = STATUS_OK
    /\ CallGetDevID(MeasureWords \cup {42112})

NextMeasure ==
    \/ MeasureSetup
    \/ MeasureShunt
    \/ MeasureCurrent
    \/ MeasureBus
    \/ MeasurePower
    \/ MeasureManID
    \/ MeasureDevID

SpecMeasure == Init /\ [][NextMeasure]_vars

\* init, a change of range, an alert_init for a shunt source, and a change
\* of range after it; or a reading of the shunt voltage after init or after
\* the change of range.
ShuntAlertArgs ==
    {ALERT_SHUNT_OVER_LIMIT, ALERT_SHUNT_UNDER_LIMIT} \X {0} \X {1} \X {0} \X ShuntLimits

RangeInit == call.op = "none" /\ CallInit(InitArgsSample)
RangeSetBefore ==
    /\ call.op = "init" /\ call.status = STATUS_OK
    /\ CallSetADCRange
RangeAlertInit ==
    /\ nops <= 2
    /\ \/ call.op = "init" /\ call.status = STATUS_OK
       \/ call.op = "setADCRange"
    /\ CallAlertInit(ShuntAlertArgs)
RangeSetAfter == call.op = "alert_init" /\ CallSetADCRange

RangeGetShunt ==
    /\ call.op \in {"init", "setADCRange"} /\ call.status = STATUS_OK
    /\ CallGetShuntVoltage(MeasureWords)

NextRange ==
    \/ RangeInit
    \/ RangeSetBefore
    \/ RangeAlertInit
    \/ RangeSetAfter
    \/ RangeGetShunt

SpecRange == Init /\ [][NextRange]_vars

\* contents of the identification registers: all zeros, the two identifiers
\* of the chip, all ones
IdWords == {0, 21577, 42112, 65535}

\* contents of the mask/enable register: every value of bits 5..0 (the flags,
\* polarity and latch) under three patterns of bits 15..6
MaskWords == {u * 64 + l : u \in {0, 341, 1023}, l \in 0..63}

\* two contents for each of the registers 0x01 .. 0x04, all different
ReadAllWords ==
    [r \in SHUNT_VOLTAGE_REGISTER..CURRENT_REGISTER |->
        CASE r = SHUNT_VOLTAGE_REGISTER -> {65520, 4660}
          [] r = BUS_VOLTAGE_REGISTER -> {32752, 9029}
          [] r = POWER_REGISTER -> {65535, 13398}
          [] r = CURRENT_REGISTER -> {32768, 17767}]

CallSoftResetAll ==
    \E hal_ok \in BOOLEAN :
        ReturnValue(INA234_SoftResetAll(Cur, hal_ok), "SoftResetAll", <<>>)

CallReadAll ==
    \E hal \in [1..4 -> BOOLEAN] :
      \E w1 \in WordsRead(SHUNT_VOLTAGE_REGISTER, ReadAllWords[SHUNT_VOLTAGE_REGISTER], hal[1]),
         w2 \in WordsRead(BUS_VOLTAGE_REGISTER, ReadAllWords[BUS_VOLTAGE_REGISTER], hal[2]),
         w3 \in WordsRead(POWER_REGISTER, ReadAllWords[POWER_REGISTER], hal[3]),
         w4 \in WordsRead(CURRENT_REGISTER, ReadAllWords[CURRENT_REGISTER], hal[4]) :
        ReturnValue(INA234_readAll([Cur EXCEPT !.chip[SHUNT_VOLTAGE_REGISTER] = w1,
                                               !.chip[BUS_VOLTAGE_REGISTER] = w2,
                                               !.chip[POWER_REGISTER] = w3,
                                               !.chip[CURRENT_REGISTER] = w4], hal),
                    "readAll", <<>>)

CallIsDataReady(words) ==
    \E hal_ok \in BOOLEAN : \E w \in WordsRead(MASK_ENABLE_REGISTER, words, hal_ok) :
        ReturnValue(INA234_isDataReady(CurWith(MASK_ENABLE_REGISTER, w), hal_ok),
                    "isDataReady", <<>>)

CallGetAlertSource(words) ==
    \E hal_ok \in BOOLEAN : \E w \in WordsRead(MASK_ENABLE_REGISTER, words, hal_ok) :
        ReturnValue(INA234_getAlertSource(CurWith(MASK_ENABLE_REGISTER, w), hal_ok),
                    "getAlertSource", <<>>)

CallGetErrors(words) ==
    \E hal_ok \in BOOLEAN : \E w \in WordsRead(MASK_ENABLE_REGISTER, words, hal_ok) :
        ReturnValue(INA234_getErrors(CurWith(MASK_ENABLE_REGISTER, w), hal_ok),
                    "getErrors", <<>>)

CallResetAlert(words) ==
    \E hal_ok \in BOOLEAN : \E w \in WordsRead(MASK_ENABLE_REGISTER, words, hal_ok) :
        Return(INA234_resetAlert(CurWith(MASK_ENABLE_REGISTER, w), hal_ok),
               "resetAlert", <<>>)

\* init, whatever its result, and then one call of any function of the
\* driver; the broadcast reset may also come before init (main.c).
Inited == call.op = "init"

ReadSetup == call.op = "none" /\ CallInit(InitArgsSample)

NextRead ==
    \/ ReadSetup
    \/ call.op \in {"none", "init"} /\ CallSoftResetAll
    \/ Inited /\ CallAlertInit(AlertArgsSample)
    \/ Inited /\ CallSetADCRange
    \/ Inited /\ CallSetNumberOfADCSamples
    \/ Inited /\ CallSetVBusConversionTime
    \/ Inited /\ CallSetVShuntConversionTime
    \/ Inited /\ CallSetMode
    \/ Inited /\ CallGetManID(IdWords)
    \/ Inited /\ CallGetDevID(IdWords)
    \/ Inited /\ CallReadAll
    \/ Inited /\ CallGetCurrent(MeasureWords)
    \/ Inited /\ CallGetBusVoltage(MeasureWords)
    \/ Inited /\ CallGetShuntVoltage(MeasureWords)
    \/ Inited /\ CallGetPower(MeasureWords)
    \/ Inited /\ CallIsDataReady(MaskWords)
    \/ Inited /\ CallGetAlertSource(MaskWords)
    \/ Inited /\ CallGetErrors(MaskWords)
    \/ Inited /\ CallResetAlert(MaskWords)

SpecRead == Init /\ [][NextRead]_vars

\* Latched alerts: the init of main.c, an alert_init, the chip raising its
\* alert-function flag once, and up to MaxFlagReads calls of the functions
\* that read register 0x06, each finding in it what the chip then holds.
LatchSetup == call.op = "none" /\ CallInit({MainInitArgs})
LatchAlertInit ==
    /\ call.op = "init" /\ call.status = STATUS_OK
    /\ CallAlertInit(AlertArgsSample)

\* the chip finds the limit crossed and sets the alert-function flag
AlertAsserts ==
    /\ call.op = "alert_init" /\ call.status = STATUS_OK
    /\ dev.alert_on # ALERT_NONE
    /\ Bit(chip[MASK_ENABLE_REGISTER], 4) = 0
    /\ chip' = [chip EXCEPT ![MASK_ENABLE_REGISTER] = SetField(@, 4, 1, 1)]
    /\ UNCHANGED <<dev, raw, bus, call, nops>>

FlagCallAllowed ==
    /\ call.op \notin {"none", "init"}
    /\ nops < 2 + MaxFlagReads

LatchIsDataReady == FlagCallAllowed /\ CallIsDataReady({chip[MASK_ENABLE_REGISTER]})
LatchGetAlertSource == FlagCallAllowed /\ CallGetAlertSource({chip[MASK_ENABLE_REGISTER]})
LatchGetErrors == FlagCallAllowed /\ CallGetErrors({chip[MASK_ENABLE_REGISTER]})
LatchResetAlert == FlagCallAllowed /\ CallResetAlert({chip[MASK_ENABLE_REGISTER]})

NextLatch ==
    \/ LatchSetup
    \/ LatchAlertInit
    \/ AlertAsserts
    \/ LatchIsDataReady
    \/ LatchGetAlertSource
    \/ LatchGetErrors
    \/ LatchResetAlert

SpecLatch == Init /\ [][NextLatch]_vars

--------------------------------------------------------------------------
(* Properties: configuration setters and accessors *)

SetterOps == {"setADCRange", "setNumberOfADCSamples", "setVBusConversionTime",
              "setVShuntConversionTime", "setMode"}

\* the accessor that belongs to a setter
AccessorOf(op) ==
    CASE op = "setADCRange" -> INA234_getADCRange
      [] op = "setNumberOfADCSamples" -> INA234_getNumberOfADCSamples
      [] op = "setVBusConversionTime" -> INA234_getVBusConversionTime
      [] op = "setVShuntConversionTime" -> INA234_getVShuntConversionTime
      [] op = "setMode" -> INA234_getMode

\* C1: once a setter has returned success, the accessor of its field returns
\* the value that setter has just set.
C1_AccessorReturnsLastSet ==
    (call.op \in SetterOps /\ call.status = STATUS_OK)
        => AccessorOf(call.op) = call.args

\* the lowest bit and the width of the configuration bitfield a setter targets
TargetLo(op) ==
    CASE op = "setADCRange" -> 12
      [] op = "setNumberOfADCSamples" -> 9
      [] op = "setVBusConversionTime" -> 6
      [] op = "setVShuntConversionTime" -> 3
      [] op = "setMode" -> 0
TargetWidth(op) == IF op = "setADCRange" THEN 1 ELSE 3

\* C2: a setter whose read succeeds issues one read of register 0x00 and then
\* one write of register 0x00 and nothing else, and the word written is the
\* word read with the bits of the targeted field replaced by the argument and
\* every other bit kept.
C2_SetterReadModifyWrite ==
    (call.op \in SetterOps /\ bus[1].ok) =>
        /\ Len(bus) = 2
        /\ bus[1].kind = "R" /\ bus[1].reg = 0
        /\ bus[2].kind = "W" /\ bus[2].reg = 0
        /\ \A i \in 0..15 :
              Bit(bus[2].word, i) =
                  IF i >= TargetLo(call.op) /\ i < TargetLo(call.op) + TargetWidth(call.op)
                  THEN Bit(call.args, i - TargetLo(call.op))
                  ELSE Bit(bus[1].word, i)

\* a conversion-time setter has rewritten a configuration word whose reserved
\* bit 14 was set, and changed it
C2_Witness ==
    /\ call.op = "setVBusConversionTime"
    /\ Len(bus) = 2 /\ bus[1].ok /\ bus[2].ok
    /\ Bit(bus[1].word, 14) = 1
    /\ bus[2].word # bus[1].word
    /\ chip[CONFIGURATION_REGISTER] = bus[2].word

\* C3: a setter whose read times out returns Timeout, issues no write and
\* leaves the Device fields, the register image and the chip unchanged; a
\* setter whose read succeeds returns the status of its write.
C3_ReadTimeoutAborts ==
    [][ (nops' = nops + 1 /\ call'.op \in SetterOps) =>
            IF bus'[1].ok
            THEN /\ Len(bus') = 2
                 /\ call'.status = IF bus'[2].ok THEN STATUS_OK ELSE STATUS_TimeOut
            ELSE /\ call'.status = STATUS_TimeOut
                 /\ Len(bus') = 1 /\ bus'[1].kind = "R"
                 /\ dev' = dev /\ raw' = raw /\ chip' = chip ]_vars

\* the read of a setter has timed out while the register image held two
\* different bytes and the Device held the arguments of an earlier init
C3_Witness ==
    /\ call.op = "setVShuntConversionTime"
    /\ call.status = STATUS_TimeOut
    /\ Len(bus) = 1 /\ ~bus[1].ok
    /\ raw[1] # raw[2]
    /\ dev.mode # 0

--------------------------------------------------------------------------
(* Properties: init and alert_init *)

\* the two writes of a call, to r1 and then to r2: the second is issued just
\* when the first succeeded, the result is success just when both succeeded,
\* and a word the chip has taken stays in the chip
TwoWrites(r1, r2) ==
    /\ Len(bus) >= 1
    /\ bus[1].kind = "W" /\ bus[1].reg = r1
    /\ IF bus[1].ok
       THEN /\ Len(bus) = 2
            /\ bus[2].kind = "W" /\ bus[2].reg = r2
            /\ chip[r1] = bus[1].word
            /\ bus[2].ok => chip[r2] = bus[2].word
            /\ (call.status = STATUS_OK) <=> bus[2].ok
       ELSE /\ Len(bus) = 1
            /\ call.status # STATUS_OK
    /\ call.status \in {STATUS_OK, STATUS_TimeOut}

\* the Device holds the arguments of the most recent init
InitArgsStored ==
    /\ dev.ShuntResistor = call.args[1]
    /\ dev.adc_range = call.args[2]
    /\ dev.number_of_adc_samples = call.args[3]
    /\ dev.vbus_conversion_time = call.args[4]
    /\ dev.vshunt_conversion_time = call.args[5]
    /\ dev.mode = call.args[6]

\* the Device holds the arguments of the most recent alert_init
AlertArgsStored ==
    /\ dev.alert_on = call.args[1]
    /\ dev.alert_polarity = call.args[2]
    /\ dev.alert_latch = call.args[3]
    /\ dev.alert_conv_ready = call.args[4]
    /\ dev.alert_limit = LimitOf(call.args[5])

\* C7: init writes 0x00 then 0x05 and alert_init writes 0x07 then 0x06; each
\* succeeds iff both writes succeed, does not issue the second write when the
\* first times out, and rolls back nothing it has stored or written.
C7_TwoWritesInOrder ==
    /\ call.op = "init" =>
          TwoWrites(CONFIGURATION_REGISTER, CALIBRATION_REGISTER) /\ InitArgsStored
    /\ call.op = "alert_init" =>
          TwoWrites(ALERT_LIMIT_REGISTER, MASK_ENABLE_REGISTER) /\ AlertArgsStored

\* alert_init after an init: the alert-limit write was taken by the chip and
\* the mask/enable write timed out
C7_Witness ==
    /\ call.op = "alert_init"
    /\ call.status = STATUS_TimeOut
    /\ Len(bus) = 2 /\ bus[1].ok /\ ~bus[2].ok
    /\ chip[ALERT_LIMIT_REGISTER] = bus[1].word
    /\ dev.alert_on = ALERT_BUS_OVER_LIMIT
    /\ dev.mode # 0

\* the configuration fields of a 16-bit word, by bit position
CfgMode(w) == w % 8
CfgVshct(w) == (w \div 8) % 8
CfgVbusct(w) == (w \div 64) % 8
CfgAvg(w) == (w \div 512) % 8
CfgRange(w) == (w \div 4096) % 2
CfgRst(w) == w \div 32768

\* C4: the word init sends to register 0x00 has bit 15 clear and carries mode,
\* shunt conversion time, bus conversion time, averaging and range in bits
\* 2..0, 5..3, 8..6, 11..9 and 12; init stores its arguments on the Device.
C4_InitConfigurationWord ==
    call.op = "init" =>
        /\ bus[1].kind = "W" /\ bus[1].reg = 0
        /\ CfgRst(bus[1].word) = 0
        /\ CfgMode(bus[1].word) = call.args[6]
        /\ CfgVshct(bus[1].word) = call.args[5]
        /\ CfgVbusct(bus[1].word) = call.args[4]
        /\ CfgAvg(bus[1].word) = call.args[3]
        /\ CfgRange(bus[1].word) = call.args[2]
        /\ InitArgsStored
        /\ dev.I2C_ADDR = 2 * I2cAddress

\* a second init, started with bit 15 of the register image set, has sent a
\* configuration in which the four 3-bit fields all differ
C4_Witness ==
    /\ call.op = "init" /\ nops = 2
    /\ call.args[3] = 1 /\ call.args[4] = 6 /\ call.args[5] = 3 /\ call.args[6] = 4
    /\ call.args[2] = RANGE_20_48mV
    /\ bus[1].ok
    /\ chip[CONFIGURATION_REGISTER] = bus[1].word

\* the calibration field (bits 14..0) of the word of the second write of init
CalField == bus[2].word % 32768

\* numerator and denominator of fullScaleMV / (currentLSB * shuntResistance)
\* for the arguments of the most recent init: (fs/100) * 2048 * 2^e / (5 * m)
CalNum == (IF call.args[2] = RANGE_81_92mV THEN 8192 ELSE 2048) * 2048 * Pow2(call.args[1].e)
CalDen == 500 * call.args[1].m

\* c = floor(CalNum / CalDen)
IsCalFloor(c) == c * CalDen <= CalNum /\ CalNum < (c + 1) * CalDen

\* C5 as stated: for every range and every resistance from 1/8 to 5 the
\* calibration field is the floor of the quotient, and the quotient fits in
\* 15 bits.
C5_CalibrationFitsAlways ==
    (call.op = "init" /\ Len(bus) = 2) =>
        /\ CalNum < 32768 * CalDen
        /\ IsCalFloor(CalField)

\* C5 amended: whenever the quotient is below 32768, the calibration field of
\* the word init sends to register 0x05 is the floor of the quotient.
C5_CalibrationWhenItFits ==
    (call.op = "init" /\ Len(bus) = 2 /\ CalNum < 32768 * CalDen) =>
        /\ bus[2].kind = "W" /\ bus[2].reg = CALIBRATION_REGISTER
        /\ IsCalFloor(CalField)

\* init with 2.5 at the 81.92 mV range has written the calibration register
C5_Witness ==
    /\ call.op = "init"
    /\ call.args[1] = Float(20, 3) /\ call.args[2] = RANGE_81_92mV
    /\ Len(bus) = 2 /\ bus[2].ok
    /\ CalNum < 32768 * CalDen
    /\ chip[CALIBRATION_REGISTER] = bus[2].word

\* the most recent call is init with resistance 1 at the 20.48 mV range, and
\* it got as far as the calibration write
InitOneOhm20mV ==
    /\ call.op = "init"
    /\ call.args[1].m = Pow2(call.args[1].e)
    /\ call.args[2] = RANGE_20_48mV
    /\ Len(bus) = 2

\* C6 as stated: init with resistance 1 and the 20.48 mV range writes the
\* calibration value 8390.
C6_Calibration8390 == InitOneOhm20mV => CalField = 8390

\* C6 amended: init with resistance 1 and the 20.48 mV range writes the
\* calibration value 8388 in bits 14..0 of register 0x05.
C6_Calibration8388 ==
    InitOneOhm20mV => (bus[2].reg = CALIBRATION_REGISTER /\ CalField = 8388)

\* main.c's init has written both registers
C6_Witness ==
    /\ InitOneOhm20mV
    /\ call.args = MainInitArgs
    /\ call.status = STATUS_OK
    /\ chip[CALIBRATION_REGISTER] % 32768 = CalField

--------------------------------------------------------------------------
(* Properties: encoding of the alert limit *)

\* the float the most recent alert_init received
CallLimit == LimitOf(call.args[5])

\* counts per unit for the source of the most recent alert_init: 1 / 0.025 for
\* the bus sources, 1 / 0.01 (20.48 mV range) or 1 / 0.04 (81.92 mV range) for
\* the shunt sources, 1 / (5 / 2048 * 0.032) for the power source
CallLsbInv ==
    CASE call.args[1] \in {ALERT_BUS_OVER_LIMIT, ALERT_BUS_UNDER_LIMIT} -> 40
      [] call.args[1] \in {ALERT_SHUNT_OVER_LIMIT, ALERT_SHUNT_UNDER_LIMIT} ->
            IF dev.adc_range = RANGE_20_48mV THEN 100 ELSE 25
      [] call.args[1] = ALERT_POWER_OVER_LIMIT -> 12800

\* q is x * K with its fraction dropped, x = m / 2^e
IsTruncated(q, x, K) ==
    IF x.m >= 0
    THEN q >= 0 /\ q * Pow2(x.e) <= K * x.m /\ K * x.m < (q + 1) * Pow2(x.e)
    ELSE q <= 0 /\ (0 - q) * Pow2(x.e) <= K * (0 - x.m)
                /\ K * (0 - x.m) < (1 - q) * Pow2(x.e)

\* C8: the encoded limit is the limit divided by the LSB of the source with
\* the fraction dropped, or 0x7FFF for ALERT_NONE whatever the limit; its low
\* 16 bits are the word written to register 0x07.
C8_AlertLimitEncoding ==
    call.op = "alert_init" =>
        /\ IF call.args[1] = ALERT_NONE
           THEN dev.alert_limit_int = 32767
           ELSE IsTruncated(dev.alert_limit_int, CallLimit, CallLsbInv)
        /\ bus[1].kind = "W" /\ bus[1].reg = ALERT_LIMIT_REGISTER
        /\ bus[1].word = dev.alert_limit_int % 65536

\* a shunt limit of -2.5 mV at the 20.48 mV range has been encoded and sent
C8_Witness ==
    /\ call.op = "alert_init"
    /\ call.args[1] = ALERT_SHUNT_UNDER_LIMIT /\ call.args[5] = <<-1, 5, 2>>
    /\ dev.adc_range = RANGE_20_48mV
    /\ dev.alert_limit_int < 0
    /\ bus[1].ok /\ chip[ALERT_LIMIT_REGISTER] = bus[1].word

\* C9: alert_init with ALERT_BUS_OVER_LIMIT and the limit 3.3 encodes 132.
C9_BusLimit132 ==
    (call.op = "alert_init" /\ call.args[1] = ALERT_BUS_OVER_LIMIT
        /\ call.args[5] = <<1, 33, 10>>)
        => dev.alert_limit_int = 132

\* the word as the int16_t the alert-limit register holds
Signed16(w) == IF w >= 32768 THEN w - 65536 ELSE w

\* |v / K - x| < 1 / K for the integer v and x = m / 2^e: v is the floor of
\* x * K, or the next integer when x * K is not an integer
WithinOneLsb(v, x, K) ==
    LET fl == (K * x.m) \div Pow2(x.e)
        exact == (K * x.m) % Pow2(x.e) = 0
    IN  v = fl \/ (v = fl + 1 /\ ~exact)

\* -32768 <= x * K < 32768
FitsSigned16(x, K) ==
    LET fl == (K * x.m) \div Pow2(x.e)
    IN  fl >= 0 - 32768 /\ fl <= 32767

\* C10 as stated: for each of the five sources and every limit, the word
\* written to register 0x07, read as a signed 16-bit number and multiplied by
\* the LSB of the source, is less than one LSB away from the limit.
C10_RoundTripAlways ==
    (call.op = "alert_init" /\ call.args[1] # ALERT_NONE)
        => WithinOneLsb(Signed16(bus[1].word), CallLimit, CallLsbInv)

\* C10 amended: the same, for every limit whose quotient by the LSB lies in
\* the signed 16-bit range.
C10_RoundTripInRange ==
    (call.op = "alert_init" /\ call.args[1] # ALERT_NONE
        /\ FitsSigned16(CallLimit, CallLsbInv))
        => /\ bus[1].kind = "W" /\ bus[1].reg = ALERT_LIMIT_REGISTER
           /\ WithinOneLsb(Signed16(bus[1].word), CallLimit, CallLsbInv)

\* a power limit of 2 W (25600 counts) has been written to the chip
C10_Witness ==
    /\ call.op = "alert_init"
    /\ call.args[1] = ALERT_POWER_OVER_LIMIT /\ call.args[5] = <<1, 2, 1>>
    /\ FitsSigned16(CallLimit, CallLsbInv)
    /\ bus[1].ok /\ chip[ALERT_LIMIT_REGISTER] = 25600

--------------------------------------------------------------------------
(* Properties: the mask/enable word of alert_init *)

\* the trigger-enable bit of an alert source: SOL 15, SUL 14, BOL 13, BUL 12,
\* POL 11, and none for ALERT_NONE
TriggerBit(alert_on) ==
    CASE alert_on = ALERT_SHUNT_OVER_LIMIT -> 15
      [] alert_on = ALERT_SHUNT_UNDER_LIMIT -> 14
      [] alert_on = ALERT_BUS_OVER_LIMIT -> 13
      [] alert_on = ALERT_BUS_UNDER_LIMIT -> 12
      [] alert_on = ALERT_POWER_OVER_LIMIT -> 11
      [] OTHER -> -1

\* C11: in the word alert_init sends to register 0x06, of the bits 15..11 the
\* one of the alert source is set and the others are clear (all five clear
\* for ALERT_NONE), and bits 10, 1 and 0 equal the conversion-ready, polarity
\* and latch arguments.
C11_MaskEnableWord ==
    (call.op = "alert_init" /\ Len(bus) = 2) =>
        /\ bus[2].kind = "W" /\ bus[2].reg = MASK_ENABLE_REGISTER
        /\ \A b \in 11..15 :
              Bit(bus[2].word, b) = IF b = TriggerBit(call.args[1]) THEN 1 ELSE 0
        /\ Bit(bus[2].word, 10) = call.args[4]
        /\ Bit(bus[2].word, 1) = call.args[2]
        /\ Bit(bus[2].word, 0) = call.args[3]

\* alert_init for a bus under-limit alert, active high, transparent, with the
\* conversion-ready alert on, has written the mask/enable register
C11_Witness ==
    /\ call.op = "alert_init"
    /\ call.args[1] = ALERT_BUS_UNDER_LIMIT
    /\ call.args[2] = 1 /\ call.args[3] = 0 /\ call.args[4] = 1
    /\ Len(bus) = 2 /\ bus[2].ok
    /\ chip[MASK_ENABLE_REGISTER] = bus[2].word
    /\ Bit(bus[2].word, 12) = 1

--------------------------------------------------------------------------
(* Properties: the alert limit and the ADC range *)

\* counts per mV of the range the chip's configuration register holds
ChipShuntLsbInv == IF CfgRange(chip[CONFIGURATION_REGISTER]) = RANGE_20_48mV THEN 100 ELSE 25

\* C12: the encoded limit of an alert_init for a shunt source is the limit
\* divided by the LSB of the range in force when alert_init is called (the
\* one of init, or of a successful setADCRange since), and a setADCRange
\* after alert_init changes neither the encoded limit nor register 0x07.
C12_LimitFollowsCurrentRange ==
    [][ /\ (call'.op = "alert_init" /\ nops' = nops + 1) =>
              IsTruncated(dev'.alert_limit_int, LimitOf(call'.args[5]), ChipShuntLsbInv)
        /\ (call.op = "alert_init" /\ call'.op = "setADCRange") =>
              /\ dev'.alert_limit_int = dev.alert_limit_int
              /\ chip'[ALERT_LIMIT_REGISTER] = chip[ALERT_LIMIT_REGISTER] ]_vars

--------------------------------------------------------------------------
(* Properties: the transaction layer *)

TxnOps == {"readTwoBytes", "writeTwoBytes"}

\* the two bytes of a word in the order they travel on the bus
BusBytes(w) == <<w \div 256, w % 256>>

\* C13: the swap of the transaction layer exchanges the two bytes of the
\* register image whatever they are, equal bytes included, and a second swap
\* gives back the bytes the first one started from: a write leaves the image
\* exchanged, a successful read leaves the received bytes exchanged.
C13_SwapExchangesAndRestores ==
    [][ (nops' = nops + 1 /\ call'.op \in TxnOps) =>
            /\ call'.op = "writeTwoBytes" =>
                  /\ raw' = <<raw[2], raw[1]>>
                  /\ Swap(raw') = raw
            /\ (call'.op = "readTwoBytes" /\ bus'[1].ok) =>
                  /\ raw' = <<BusBytes(bus'[1].word)[2], BusBytes(bus'[1].word)[1]>>
                  /\ Swap(raw') = BusBytes(bus'[1].word) ]_vars

\* a write has swapped an image of two equal non-zero bytes and sent them
C13_Witness ==
    /\ call.op = "writeTwoBytes"
    /\ raw = <<85, 85>>
    /\ bus[1].word = 21845
    /\ chip[ALERT_LIMIT_REGISTER] = 21845

\* C14: a call of the transaction layer issues one transaction, of its kind,
\* at the register address it was given and the Device's bus address, and no
\* second one when that fails; it returns success when the transaction
\* succeeded and Timeout when it failed; a read that failed has left the
\* register image as it was.
C14_OneTransactionNoRetry ==
    [][ (nops' = nops + 1 /\ call'.op \in TxnOps) =>
            /\ Len(bus') = 1
            /\ bus'[1].kind = IF call'.op = "readTwoBytes" THEN "R" ELSE "W"
            /\ bus'[1].reg = call'.args
            /\ bus'[1].addr = dev.I2C_ADDR
            /\ call'.status = IF bus'[1].ok THEN STATUS_OK ELSE STATUS_TimeOut
            /\ (call'.op = "readTwoBytes" /\ ~bus'[1].ok) => raw' = raw
            /\ dev' = dev ]_vars

\* a read has timed out while the image held the bytes of an earlier read
C14_Witness ==
    /\ call.op = "readTwoBytes"
    /\ call.status = STATUS_TimeOut
    /\ Len(bus) = 1 /\ ~bus[1].ok
    /\ raw = <<85, 170>>
    /\ chip[SHUNT_VOLTAGE_REGISTER] = 43605

\* C22: a write sends the 16-bit value of the overlay with its high byte
\* first, and a successful read makes the first byte received the high byte
\* of the overlay; so a read that follows a successful write, at the same
\* register of a chip that gives back the word it took, leaves an overlay
\* whose value, and with it every typed field, is the one that was written.
C22_WriteThenReadBack ==
    [][ (nops' = nops + 1 /\ call'.op \in TxnOps) =>
            /\ call'.op = "writeTwoBytes" =>
                  /\ bus'[1].word = Word(raw)
                  /\ BusBytes(bus'[1].word) = <<raw[2], raw[1]>>
            /\ (call'.op = "readTwoBytes" /\ bus'[1].ok) =>
                  /\ Word(raw') = bus'[1].word
                  /\ raw'[2] = BusBytes(bus'[1].word)[1]
            /\ (/\ call.op = "writeTwoBytes" /\ bus[1].ok
                /\ call'.op = "readTwoBytes" /\ bus'[1].ok
                /\ bus'[1].reg = bus[1].reg
                /\ bus'[1].word = bus[1].word) =>
                  /\ Word(raw') = bus[1].word
                  /\ \A lo \in 0..15 : Bit(Word(raw'), lo) = Bit(bus[1].word, lo)
                  /\ GetField(Word(raw'), 4, 12) = GetField(bus[1].word, 4, 12) ]_vars

\* the word 0x55AA, of two different bytes, written to the alert-limit
\* register has been read back into the overlay
C22_Witness ==
    /\ call.op = "readTwoBytes" /\ call.args = ALERT_LIMIT_REGISTER
    /\ call.status = STATUS_OK
    /\ chip[ALERT_LIMIT_REGISTER] = 21930
    /\ Word(raw) = 21930
    /\ raw = <<170, 85>>
    /\ nops = 4

--------------------------------------------------------------------------
(* Properties: decoding of the measurement registers *)

\* v is the whole number of counts nearest to x * K, for the float x = m / 2^e
IsScaled(x, v, K) ==
    IF x.e = 0 THEN K * x.m = v
    ELSE /\ K * x.m - v * Pow2(x.e) < Pow2(x.e - 1)
         /\ v * Pow2(x.e) - K * x.m < Pow2(x.e - 1)

\* x is exactly v * 5 / 2048
IsCurrentOf(x, v) == x.m * CURRENT_LSB_DEN = CURRENT_LSB_NUM * v * Pow2(x.e)

\* x is v times the power LSB, 1 / 12800 = 1 / (25 * 2^9)
IsPowerOf(x, v) ==
    IF x.e >= 9 THEN IsScaled(Float(x.m, x.e - 9), v, 25) ELSE IsScaled(x, v, 12800)

\* the float x is v times the LSB of the getter op: 5 / 2048 A for the
\* current, 0.01 or 0.04 mV by the Device's range for the shunt voltage
IsDecodeOf(x, v, op) ==
    /\ (v < 0) <=> (x.m < 0)
    /\ IF op = "getCurrent" THEN IsCurrentOf(x, v)
       ELSE IsScaled(x, v, IF dev.adc_range = RANGE_20_48mV THEN 100 ELSE 25)

SignedGetters == {"getShuntVoltage", "getCurrent"}

\* the 12-bit field VSHUNT / CURRENT of the word received
Field12 == (bus[1].word \div 16) % 4096

\* C15: getShuntVoltage and getCurrent return (f if f < 2048 else f - 4096)
\* times the LSB for every value f of their 12-bit field: 0x800 gives -2048
\* LSB, 0x7FF gives 2047 LSB and 0xFFF gives -1 LSB.
C15_TwosComplementField ==
    (call.op \in SignedGetters /\ bus[1].ok) =>
        /\ IsDecodeOf(call.ret, IF Field12 < 2048 THEN Field12 ELSE Field12 - 4096, call.op)
        /\ Field12 = 2048 => IsDecodeOf(call.ret, -2048, call.op)
        /\ Field12 = 2047 => IsDecodeOf(call.ret, 2047, call.op)
        /\ Field12 = 4095 => IsDecodeOf(call.ret, -1, call.op)

\* getShuntVoltage has read the field 0x800 at the 20.48 mV range and
\* returned and cached -20.48
C15_Witness ==
    /\ call.op = "getShuntVoltage"
    /\ bus[1].ok /\ bus[1].word = 32768
    /\ dev.adc_range = RANGE_20_48mV
    /\ call.ret.m < 0
    /\ IsScaled(call.ret, -2048, 100)
    /\ dev.ShuntVoltage = call.ret

\* the value of the low twelve bits of a word as a signed 12-bit number
SignedLow12(w) == IF w % 4096 >= 2048 THEN (w % 4096) - 4096 ELSE w % 4096

\* the value of the high twelve bits of a word as a signed 12-bit number
SignedHigh12(w) == IF w >= 32768 THEN (w \div 16) - 4096 ELSE w \div 16

\* C16 as stated: getShuntVoltage and getCurrent take the signed 12-bit value
\* from bits 11..0 of the word received and ignore bits 15..12.
C16_FieldInLowBits ==
    (call.op \in SignedGetters /\ bus[1].ok) =>
        IsDecodeOf(call.ret, SignedLow12(bus[1].word), call.op)

\* C16 amended: they take the signed 12-bit value from bits 15..4 of the word
\* received and ignore bits 3..0; the register read is 0x01 for the shunt
\* voltage and 0x04 for the current.
C16_FieldInHighBits ==
    (call.op \in SignedGetters /\ bus[1].ok) =>
        /\ bus[1].kind = "R"
        /\ bus[1].reg = IF call.op = "getCurrent" THEN 4 ELSE 1
        /\ IsDecodeOf(call.ret, SignedHigh12(bus[1].word), call.op)

\* getCurrent has read 0xFC0F: the field in bits 15..4 is 0xFC0, -64 counts,
\* and bits 3..0 are all set
C16_Witness ==
    /\ call.op = "getCurrent"
    /\ bus[1].ok /\ bus[1].word = 64527
    /\ IsCurrentOf(call.ret, -64)
    /\ dev.Current = call.ret

UnsignedGetters == {"getBusVoltage", "getPower", "getManID", "getDevID"}

\* C23: the unsigned decodes are never negative and leave reserved bits out:
\* getBusVoltage returns the 11-bit field of bits 14..4 of the word received
\* times 0.025, whatever bit 15 and bits 3..0 are; getPower returns the whole
\* word, taken unsigned, times the power LSB; getManID returns the whole word
\* and getDevID the 12-bit field of bits 15..4, both as they are.
C23_UnsignedDecodes ==
    (call.op \in UnsignedGetters /\ bus[1].ok) =>
        /\ Len(bus) = 1 /\ bus[1].kind = "R"
        /\ call.op = "getBusVoltage" =>
              /\ bus[1].reg = BUS_VOLTAGE_REGISTER
              /\ call.ret.m >= 0
              /\ IsScaled(call.ret, (bus[1].word \div 16) % 2048, 40)
              /\ dev.BusVoltage = call.ret
        /\ call.op = "getPower" =>
              /\ bus[1].reg = POWER_REGISTER
              /\ call.ret.m >= 0
              /\ (call.ret.m = 0) <=> (bus[1].word = 0)
              /\ IsPowerOf(call.ret, bus[1].word)
              /\ dev.Power = call.ret
        /\ call.op = "getManID" =>
              /\ bus[1].reg = MANUFACTURERID_REGISTER
              /\ call.ret = bus[1].word
        /\ call.op = "getDevID" =>
              /\ bus[1].reg = DEVICEID_REGISTER
              /\ call.ret = (bus[1].word \div 16) % 4096

\* getBusVoltage has read 0xFFFF, bit 15 and bits 3..0 set, and returned
\* 2047 counts of 0.025
C23_Witness ==
    /\ call.op = "getBusVoltage"
    /\ bus[1].ok /\ bus[1].word = 65535
    /\ call.ret.m > 0
    /\ IsScaled(call.ret, 2047, 40)
    /\ dev.BusVoltage = call.ret

--------------------------------------------------------------------------
(* Properties: flags, readAll, propagation of Timeout, broadcast reset *)

\* the memory-error flag (bit 5) and the math-overflow flag (bit 2) of the
\* mask/enable word received
MemErrorRead == Bit(bus[1].word, 5) = 1
OvfRead == Bit(bus[1].word, 2) = 1

\* C17: whatever the mask/enable register holds, getErrors returns
\* ERROR_BOTH_MEMORY_OVF iff both the memory-error and the overflow bit are
\* set, ERROR_NONE iff both are clear, ERROR_MEMORY when only memory-error is
\* set and ERROR_OVF when only overflow is set.
C17_GetErrorsKinds ==
    (call.op = "getErrors" /\ bus[1].ok) =>
        /\ bus[1].kind = "R" /\ bus[1].reg = MASK_ENABLE_REGISTER
        /\ (call.ret = ERROR_BOTH_MEMORY_OVF) <=> (MemErrorRead /\ OvfRead)
        /\ (call.ret = ERROR_NONE) <=> (~MemErrorRead /\ ~OvfRead)
        /\ (MemErrorRead /\ ~OvfRead) => call.ret = ERROR_MEMORY
        /\ (~MemErrorRead /\ OvfRead) => call.ret = ERROR_OVF

\* getErrors has read a word in which both flags and all the enable bits are
\* set and the other flags are clear
C17_Witness ==
    /\ call.op = "getErrors"
    /\ bus[1].ok /\ bus[1].word = 65508
    /\ call.ret = ERROR_BOTH_MEMORY_OVF

\* C18: readAll issues four reads and no write, of the registers 0x01, 0x02,
\* 0x03, 0x04 in this order; when the four succeed, the cached ShuntVoltage,
\* BusVoltage, Power and Current are the scaled decodes of the four words
\* received.
C18_ReadAllOrderAndCache ==
    call.op = "readAll" =>
        /\ Len(bus) = 4
        /\ \A i \in 1..4 : bus[i].kind = "R" /\ bus[i].reg = i
        /\ (\A i \in 1..4 : bus[i].ok) =>
              /\ IsDecodeOf(dev.ShuntVoltage, SignedHigh12(bus[1].word), "getShuntVoltage")
              /\ IsScaled(dev.BusVoltage, (bus[2].word \div 16) % 2048, 40)
              /\ IsPowerOf(dev.Power, bus[3].word)
              /\ IsDecodeOf(dev.Current, SignedHigh12(bus[4].word), "getCurrent")

\* readAll has read 0x1234, 0x2345, 0x3456, 0x4567 and cached four non-zero
\* values, the shunt voltage at the 81.92 mV range
C18_Witness ==
    /\ call.op = "readAll"
    /\ \A i \in 1..4 : bus[i].ok
    /\ bus[1].word = 4660 /\ bus[2].word = 9029
    /\ bus[3].word = 13398 /\ bus[4].word = 17767
    /\ dev.adc_range = RANGE_81_92mV
    /\ IsScaled(dev.ShuntVoltage, 291, 25)
    /\ IsScaled(dev.BusVoltage, 564, 40)
    /\ IsPowerOf(dev.Power, 13398)
    /\ IsCurrentOf(dev.Current, 1110)

\* the operations that touch the bus and address the Device
BusOps ==
    SetterOps \cup
    {"init", "alert_init", "getShuntVoltage", "getBusVoltage", "getPower",
     "getCurrent", "readAll", "getManID", "getDevID", "isDataReady",
     "getAlertSource", "getErrors", "resetAlert"}

\* C19: when a bus transaction of an operation has failed, the operation
\* returns Timeout to its caller.
C19_TimeoutPropagated ==
    (call.op \in BusOps /\ \E i \in 1..Len(bus) : ~bus[i].ok)
        => call.status = STATUS_TimeOut

\* C20: SoftResetAll issues one transmission, of the single byte 0x06 to bus
\* address 0x00 whatever the Device's address, returns nothing whether the
\* transmission succeeded or not, and leaves the register image and the
\* fields of the Device as they were.
C20_SoftResetAllBroadcast ==
    [][ (nops' = nops + 1 /\ call'.op = "SoftResetAll") =>
            /\ Len(bus') = 1
            /\ bus'[1].kind = "T"
            /\ bus'[1].addr = 0
            /\ bus'[1].bytes = <<6>>
            /\ call'.status = NoStatus /\ call'.ret = 0
            /\ raw' = raw
            /\ dev' = dev ]_vars

\* SoftResetAll has been called on a Device whose own bus address is 0x90 and
\* whose register image is not empty, and the transmission failed
C20_Witness ==
    /\ call.op = "SoftResetAll"
    /\ dev.I2C_ADDR = 144
    /\ raw # <<0, 0>>
    /\ bus[1].addr = 0 /\ ~bus[1].ok

--------------------------------------------------------------------------
(* Properties: reading the mask/enable register with latched alerts *)

FlagOps == {"isDataReady", "getAlertSource", "getErrors", "resetAlert"}

\* the chip holds the latch bit and the alert-function flag set
LatchedFlagUp ==
    /\ Bit(chip[MASK_ENABLE_REGISTER], 0) = 1
    /\ Bit(chip[MASK_ENABLE_REGISTER], 4) = 1

\* C21: isDataReady, getAlertSource, getErrors and resetAlert each issue one
\* read of register 0x06 and no write; with the latch bit and the
\* alert-function flag set in the chip, a call whose read succeeds finds the
\* flag set, and the call that follows it, the chip not having set the flag
\* again, finds it clear.
C21_LatchedFlagClearedByRead ==
    [][ (nops' = nops + 1 /\ call'.op \in FlagOps) =>
            /\ Len(bus') = 1
            /\ bus'[1].kind = "R" /\ bus'[1].reg = MASK_ENABLE_REGISTER
            /\ \A r \in ChipRegisters \ {MASK_ENABLE_REGISTER} : chip'[r] = chip[r]
            /\ (LatchedFlagUp /\ bus'[1].ok) =>
                  /\ Bit(bus'[1].word, 4) = 1
                  /\ call'.op = "getAlertSource" => call'.ret = ALERT_LIMIT_REACHED
            /\ (/\ call.op \in FlagOps /\ bus[1].ok
                /\ Bit(bus[1].word, 0) = 1 /\ Bit(bus[1].word, 4) = 1
                /\ bus'[1].ok) =>
                  /\ Bit(bus'[1].word, 4) = 0
                  /\ call'.op = "getAlertSource" => call'.ret = ALERT_DATA_READY ]_vars

\* with latched alerts, getAlertSource has found the flag set and the chip
\* holds it clear since
C21_Witness ==
    /\ call.op = "getAlertSource"
    /\ bus[1].ok
    /\ Bit(bus[1].word, 0) = 1 /\ Bit(bus[1].word, 4) = 1
    /\ call.ret = ALERT_LIMIT_REACHED
    /\ Bit(chip[MASK_ENABLE_REGISTER], 0) = 1
    /\ Bit(chip[MASK_ENABLE_REGISTER], 4) = 0

--------------------------------------------------------------------------
(* Properties: bits the driver does not assign *)

\* C24: the words init sends to the configuration and calibration registers
\* and alert_init sends to the mask/enable register have every bit the driver
\* does not assign clear: bits 14..13 of the configuration, bit 15 of the
\* calibration, bits 9..2 of the mask/enable word, whatever the register
\* image held before.
C24_UnassignedBitsZero ==
    /\ call.op = "init" =>
          /\ GetField(bus[1].word, 13, 2) = 0
          /\ Len(bus) = 2 => Bit(bus[2].word, 15) = 0
    /\ (call.op = "alert_init" /\ Len(bus) = 2) =>
          GetField(bus[2].word, 2, 8) = 0

--------------------------------------------------------------------------
(* Properties: a measurement whose read timed out *)

MeasureGetters == {"getShuntVoltage", "getBusVoltage", "getPower", "getCurrent"}

\* the Device's cached value of the measurement the getter op reads
CachedOf(d, op) ==
    CASE op = "getShuntVoltage" -> d.ShuntVoltage
      [] op = "getBusVoltage" -> d.BusVoltage
      [] op = "getPower" -> d.Power
      [] op = "getCurrent" -> d.Current

\* C25: when the read of getShuntVoltage, getBusVoltage, getPower or
\* getCurrent has timed out, the Device's cached value of that measurement is
\* the one it was before the call, and the value returned is that cached
\* value.
C25_TimeoutKeepsCachedMeasurement ==
    [][ (nops' = nops + 1 /\ call'.op \in MeasureGetters /\ ~bus'[1].ok) =>
            /\ CachedOf(dev', call'.op) = CachedOf(dev, call'.op)
            /\ call'.ret = CachedOf(dev, call'.op) ]_vars

--------------------------------------------------------------------------
(* Properties: the ADC range held by the chip *)

\* numerator and denominator of fullScaleMV / (currentLSB * shuntResistance)
\* for the range in the chip's configuration register and the Device's shunt
ChipCalNum == (IF CfgRange(chip[CONFIGURATION_REGISTER]) = RANGE_81_92mV THEN 8192 ELSE 2048) * 2048 * Pow2(dev.ShuntResistor.e)
ChipCalDen == 500 * dev.ShuntResistor.m

\* C26: after successful init and setADCRange calls, the calibration field
\* of the chip's calibration register is the floor of fullScaleMV /
\* (currentLSB * shuntResistance) for the range the chip's configuration
\* register holds.
C26_CalibrationFollowsRange ==
    (call.op \in {"init", "setADCRange"} /\ call.status = STATUS_OK
        /\ ChipCalNum < 32768 * ChipCalDen) =>
        LET c == chip[CALIBRATION_REGISTER] % 32768
        IN  c * ChipCalDen <= ChipCalNum /\ ChipCalNum < (c + 1) * ChipCalDen

\* C27: after successful init and setADCRange calls, getShuntVoltage returns
\* the signed field of the word received times the LSB of the range the
\* chip's configuration register holds: 0.01 mV for 20.48 mV, 0.04 mV for
\* 81.92 mV.
C27_ShuntScaleFollowsChipRange ==
    (call.op = "getShuntVoltage" /\ bus[1].ok) =>
        IsScaled(call.ret, SignedHigh12(bus[1].word), ChipShuntLsbInv)

\* C28: for the shunt sources, the word alert_init sends to register 0x07,
\* decoded as getShuntVoltage decodes register 0x01 (signed field in bits
\* 15..4, LSB of the Device's range), is the limit within one LSB.
C28_LimitAlignedWithShuntRegister ==
    (call.op = "alert_init"
        /\ call.args[1] \in {ALERT_SHUNT_OVER_LIMIT, ALERT_SHUNT_UNDER_LIMIT}
        /\ FitsSigned16(CallLimit, CallLsbInv))
        => WithinOneLsb(SignedHigh12(bus[1].word), CallLimit, CallLsbInv)

====
